---------------------------- MODULE Spec2Model ----------------------------
(***************************************************************************)
(* A state-machine model of the two scripts of the repository:             *)
(*   src/src/Sinha2016.py  (class Sinha2016 and its __main__ block)         *)
(*   src/src/vogels2005.py (a module-level script)                          *)
(*                                                                         *)
(* The external simulation engine (nest) is represented only by the part   *)
(* of its state the scripts read or write: the kernel time, the connection *)
(* weights, the created stimulus generators, the neurons whose I_e was set *)
(* and the sources connected to each spike detector.                       *)
(*                                                                         *)
(* Units.  The kernel time is in milliseconds, as in the engine.  The      *)
(* source keeps stabilisation_time and sp_recording_interval as float      *)
(* seconds; the model keeps them in integer milliseconds, so that the      *)
(* constructor's stabilisation_time/2. is exact.  Every simtime handed to  *)
(* run_simulation is likewise in milliseconds, so nest.Simulate(simtime *  *)
(* 1000) of the source is Simulate(s, simtime, ..) here.                   *)
(***************************************************************************)
EXTENDS Integers, Sequences, FiniteSets, TLC

\* ------------------------------------------------------------------ sizes
\* Scaled populations (the source uses E = 8000, P = 800, R = 400, D = 200).
NE == 4
PopP == 2
PopR == 1
PopD == 1

\* Bounds of the exploration.
MaxCalls == 3
MaxSteps == 8
MaxNumpats == 2

\* ------------------------------------------------------- program constants
\* self.recall_time = 1000. (ms)
recall_time == 1000
\* the weight store_pattern gives to the connections inside a pattern
PatternWeight == 24
\* self.weightEE
weightEE_static == 3
\* self.sparsity = 0.02, as a percentage
SparsityPercent == 2
\* nest.Simulate(1000) of the stepping branch
StepMs == 1000
\* self.numpats = 0
numpats_default == 0

\* The values of stabilisation_time and sp_recording_interval (seconds) the
\* constructor is exercised with; <<12000, 1000>> are the source's literals.
StabilisationTimes == {12000, 7}
RecordingIntervals == {1000}
\* The simulated durations (seconds) the driver hands to run_simulation and
\* recall_pattern.
SimTimes == {1, 3}

NeuronsE == 1..NE

VARIABLES
    stabilisation_time,          \* ms
    sp_recording_interval,       \* ms
    numpats,
    pattern_count,
    patterns,                    \* list of pattern neuron sets
    recalls,                     \* list of recall neuron sets
    sdP, sdB, sdR, sdL,          \* per detector: the neurons connected to it
    stims,                       \* the stimulus generators created for recall
    I_e_zeroed,                  \* neurons on which SetStatus {'I_e': 0.} ran
    kernel_time,                 \* nest.GetKernelStatus()['time'], ms
    weightEE,                    \* weight of each E -> E connection
    weightIE_epoch,              \* Simulate calls that shaped the I -> E weights
    ca_file,                     \* records of calcium-<rank>.txt
    syn_elms_file,               \* lines of 00-synaptic-elements-<rank>.txt
    mean_synaptic_weights_file,  \* records of 00-synaptic-weights-<rank>.txt
    dump_files,                  \* the synaptic-weight-IE/EE-... files written
    phase,                       \* "constructed" | "ready"
    op,                          \* the operation that ran last
    args,                        \* its simtime (ms) and step arguments
    trace,                       \* the engine and file calls it made, in order
    error,                       \* the exception that ended the program
    n_calls,                     \* history: methods called since setup
    n_runs,                      \* history: run_simulation(step=False) calls
    only_runs,                   \* history: nothing else ran since setup
    main_pc, main_i,             \* position of Sinha2016.py's __main__
    vogels_pc, vogels_names, vogels_error, vogels_created

objVars == <<stabilisation_time, sp_recording_interval, numpats>>
simVars == <<pattern_count, patterns, recalls, sdP, sdB, sdR, sdL, stims,
             I_e_zeroed, kernel_time, weightEE, weightIE_epoch,
             ca_file,
             syn_elms_file, mean_synaptic_weights_file, dump_files, trace,
             error>>
callVars == <<phase, op, args, n_calls, n_runs, only_runs>>
mainVars == <<main_pc, main_i>>
vogelsVars == <<vogels_pc, vogels_names, vogels_error, vogels_created>>
vars == <<objVars, simVars, callVars, mainVars, vogelsVars>>

\* ----------------------------------------------------------------- helpers
Last(q) == q[Len(q)]

Count(q, x) == Cardinality({i \in 1..Len(q) : q[i] = x})

\* ceil(a / b) for a >= 0, b > 0: the length of numpy.arange(0, a, b)
ArangeLen(a, b) == (a + b - 1) \div b

\* random.sample(population, k): every k-subset is a possible outcome
RECURSIVE Samples(_, _)
Samples(population, k) ==
    IF k = 0 THEN {{}}
    ELSE IF Cardinality(population) < k THEN {}
    ELSE LET x == CHOOSE y \in population : TRUE
             rest == population \ {x}
         IN  Samples(rest, k) \cup {c \cup {x} : c \in Samples(rest, k - 1)}

\* Python list indexing seq[i]: 0-based, negative i counts from the end
PyValidIndex(q, i) == (-Len(q) <= i) /\ (i < Len(q))
PyIndex(q, i) == q[(IF i < 0 THEN Len(q) + i ELSE i) + 1]

Event(c, t, a) == [call |-> c, t |-> t, arg |-> a]

\* The annotation string that names the weight files of a run: a label and,
\* for "pattern_stabilisation" + str(i), the index i.
Annotation(label, index) == [label |-> label, index |-> index]
NoAnnotation == Annotation("", 0)

\* The state a handler works on, as one record.
State == [pattern_count |-> pattern_count, patterns |-> patterns,
          recalls |-> recalls, sdP |-> sdP, sdB |-> sdB, sdR |-> sdR,
          sdL |-> sdL, stims |-> stims, I_e_zeroed |-> I_e_zeroed,
          kernel_time |-> kernel_time, weightEE |-> weightEE,
          weightIE_epoch |-> weightIE_epoch, ca_file |-> ca_file,
          syn_elms_file |-> syn_elms_file,
          mean_synaptic_weights_file |-> mean_synaptic_weights_file,
          dump_files |-> dump_files, trace |-> <<>>, error |-> error]

Commit(s) ==
    /\ pattern_count' = s.pattern_count
    /\ patterns' = s.patterns
    /\ recalls' = s.recalls
    /\ sdP' = s.sdP
    /\ sdB' = s.sdB
    /\ sdR' = s.sdR
    /\ sdL' = s.sdL
    /\ stims' = s.stims
    /\ I_e_zeroed' = s.I_e_zeroed
    /\ kernel_time' = s.kernel_time
    /\ weightEE' = s.weightEE
    /\ weightIE_epoch' = s.weightIE_epoch
    /\ ca_file' = s.ca_file
    /\ syn_elms_file' = s.syn_elms_file
    /\ mean_synaptic_weights_file' = s.mean_synaptic_weights_file
    /\ dump_files' = s.dump_files
    /\ trace' = s.trace
    /\ error' = s.error


\* ------------------------------------------------------------ the engine
\* nest.Simulate(ms): the kernel time advances by ms and the plastic I -> E
\* weights (vogels_sprekeler_synapse) become what the engine makes of them:
\* they are represented by the number of Simulate calls that shaped them.
\* The static E -> E weights are left as they are.
Simulate(s, ms) ==
    [s EXCEPT !.kernel_time = @ + ms,
              !.weightIE_epoch = @ + 1,
              !.trace = Append(@, Event("Simulate", s.kernel_time, ms))]

DataRecord(t) == [kind |-> "data", t |-> t]
HeaderLine == [kind |-> "header", t |-> 0]

\* ----------------------------------------------------------- dump methods
\* A record of a diagnostic file is represented by the kernel time at which
\* it was written.
dump_ca_concentration(s) ==
    [s EXCEPT !.ca_file = Append(@, DataRecord(s.kernel_time)),
              !.trace = Append(@, Event("dump_ca_concentration",
                                        s.kernel_time, 0))]

dump_synaptic_elements(s) ==
    [s EXCEPT !.syn_elms_file = Append(@, DataRecord(s.kernel_time)),
              !.trace = Append(@, Event("dump_synaptic_elements",
                                        s.kernel_time, 0))]

dump_mean_synaptic_weights(s) ==
    [s EXCEPT !.mean_synaptic_weights_file =
                  Append(@, DataRecord(s.kernel_time)),
              !.trace = Append(@, Event("dump_mean_synaptic_weights",
                                        s.kernel_time, 0))]

\* dump_all_EE_weights with SetStatus in the place of GetStatus: the E -> E
\* weights are overwritten while the file is written
dump_all_EE_weights_setstatus(s, annotation) ==
    [s EXCEPT !.weightEE = [c \in DOMAIN s.weightEE |-> 0],
              !.dump_files = @ \cup {[kind |-> "EE", annotation |-> annotation,
                                      t |-> s.kernel_time]},
              !.trace = Append(@, Event("dump_all_EE_weights",
                                        s.kernel_time, 0))]

\* open(file_name, 'w') creates the file or truncates the one of that name
dump_all_IE_weights(s, annotation) ==
    [s EXCEPT !.dump_files = @ \cup {[kind |-> "IE", annotation |-> annotation,
                                      t |-> s.kernel_time]},
              !.trace = Append(@, Event("dump_all_IE_weights",
                                        s.kernel_time, 0))]

dump_all_EE_weights(s, annotation) ==
    [s EXCEPT !.dump_files = @ \cup {[kind |-> "EE", annotation |-> annotation,
                                      t |-> s.kernel_time]},
              !.trace = Append(@, Event("dump_all_EE_weights",
                                        s.kernel_time, 0))]

\* ------------------------------------------------------------ construction
\* __init__ without the check of the recording interval
InitRecordingInterval_unchecked(st, ri) == ri

\* __init__: the recording interval is replaced by half the stabilisation
\* time when the stabilisation time is not a multiple of it.
InitRecordingInterval(st, ri) == IF st % ri # 0 THEN st \div 2 ELSE ri

\* __create_sparse_list: int(length * sparsity) entries carry static_w
SparseCount(length) == (length * SparsityPercent) \div 100

Connections == NeuronsE \X NeuronsE

\* __connect_neurons, E -> E: all-to-all at weight 0, then the shuffled
\* sparse list gives static_w to the connections in `strong`
InitialWeightEE(strong) ==
    [c \in Connections |-> IF c \in strong THEN weightEE_static ELSE 0]

\* __setup_files: the three files are opened for writing and the header of
\* the synaptic-elements file is printed
setup_files(s) ==
    [s EXCEPT !.mean_synaptic_weights_file = <<>>,
              !.ca_file = <<>>,
              !.syn_elms_file = <<HeaderLine>>]

setup_simulation(s, strong) ==
    LET s0 == [s EXCEPT !.kernel_time = 0,
                        !.weightIE_epoch = 0,
                        !.stims = <<>>,
                        !.I_e_zeroed = {},
                        !.weightEE = InitialWeightEE(strong),
                        !.trace = Append(@, Event("ResetKernel",
                                                  s.kernel_time, 0))]
        s1 == setup_files(s0)
        s2 == dump_ca_concentration(s1)
        s3 == dump_synaptic_elements(s2)
        s4 == dump_mean_synaptic_weights(s3)
        s5 == dump_all_IE_weights(s4, Annotation("initial_setup-", 0))
    IN  dump_all_EE_weights(s5, Annotation("initial_setup-", 0))

\* ---------------------------------------------------------- run_simulation
\* numpy.arange(0, simtime) of the stepping branch, simtime in seconds
StepCount(simtime) == ArangeLen(simtime, 1000)

RECURSIVE StepLoop(_, _)
StepLoop(s, n) ==
    IF n = 0 THEN s
    ELSE StepLoop(dump_mean_synaptic_weights(Simulate(s, StepMs)), n - 1)

\* run_simulation with the mean weights dumped before the calcium record
run_simulation_weights_first(s, simtime, step, annotation) ==
    IF step
    THEN StepLoop(s, StepCount(simtime))
    ELSE LET s1 == Simulate(s, simtime)
             s2 == dump_mean_synaptic_weights(s1)
             s3 == dump_ca_concentration(s2)
             s4 == dump_synaptic_elements(s3)
             s5 == dump_all_IE_weights(s4, annotation)
         IN  dump_all_EE_weights(s5, annotation)

run_simulation(s, simtime, step, annotation) ==
    IF step
    THEN StepLoop(s, StepCount(simtime))
    ELSE LET s1 == Simulate(s, simtime)
             s2 == dump_ca_concentration(s1)
             s3 == dump_synaptic_elements(s2)
             s4 == dump_mean_synaptic_weights(s3)
             s5 == dump_all_IE_weights(s4, annotation)
         IN  dump_all_EE_weights(s5, annotation)

\* --------------------------------------------------------------- stabilise
\* sim_steps = numpy.arange(0, stabilisation_time, sp_recording_interval)
StabiliseSteps(st, ri) == ArangeLen(st, ri)

RECURSIVE RunLoop(_, _, _, _, _)
RunLoop(s, n, simtime, step, annotation) ==
    IF n = 0 THEN s
    ELSE RunLoop(run_simulation(s, simtime, step, annotation),
                 n - 1, simtime, step, annotation)

stabilise(s, step, annotation) ==
    RunLoop(s, StabiliseSteps(stabilisation_time, sp_recording_interval),
            sp_recording_interval, step, annotation)

\* ----------------------------------------------------------- store_pattern
StrengthenedWeights(w, pattern_neurons) ==
    [c \in Connections |->
        IF c[1] \in pattern_neurons /\ c[2] \in pattern_neurons
        THEN PatternWeight ELSE w[c]]

store_pattern(s, pattern_neurons) ==
    [s EXCEPT !.weightEE = StrengthenedWeights(@, pattern_neurons),
              !.patterns = Append(@, pattern_neurons),
              !.sdP = Append(@, pattern_neurons),
              !.sdB = Append(@, NeuronsE \ pattern_neurons),
              !.pattern_count = @ + 1,
              !.trace = Append(@, Event("SetStatus_weight",
                                        s.kernel_time, PatternWeight))]

\* ------------------------------------------------------------------ recall
\* neuronDictStim with the origin of poissonExtDict
neuronDictStim_origin0(stim_time) ==
    [origin |-> 0, start |-> 0, stop |-> recall_time]

\* neuronDictStim of setup_pattern_for_recall
neuronDictStim(stim_time) ==
    [origin |-> stim_time, start |-> 0, stop |-> recall_time]

\* The generator, its parrot neurons and their detector are created before
\* self.patterns is indexed; an IndexError leaves them behind.
setup_pattern_for_recall(s, pattern_number, recall_neurons) ==
    LET s1 == [s EXCEPT !.stims = Append(@, neuronDictStim(s.kernel_time)),
                        !.trace = Append(@, Event("Create_poisson_generator",
                                                  s.kernel_time, 0))]
    IN  IF ~PyValidIndex(s.patterns, pattern_number - 1)
        THEN [s1 EXCEPT !.error = "IndexError"]
        ELSE [s1 EXCEPT !.recalls = Append(@, recall_neurons),
                        !.sdR = Append(@, recall_neurons)]

\* what random.sample may return inside setup_pattern_for_recall
RecallChoices(s, pattern_number) ==
    IF PyValidIndex(s.patterns, pattern_number - 1)
    THEN Samples(PyIndex(s.patterns, pattern_number - 1), PopR)
    ELSE {{}}

recall_pattern(s, time, step, pattern_number, recall_neurons) ==
    LET s1 == setup_pattern_for_recall(s, pattern_number, recall_neurons)
    IN  IF s1.error # "none" THEN s1
        ELSE run_simulation(s1, time, step, NoAnnotation)

\* recall_last_pattern handing on pattern_count - 1, as deaff_last_pattern does
LastPatternForRecall_previous(s) == s.pattern_count - 1

\* the pattern number recall_last_pattern hands to recall_pattern
LastPatternForRecall(s) == s.pattern_count

recall_last_pattern(s, time, step, recall_neurons) ==
    recall_pattern(s, time, step, LastPatternForRecall(s), recall_neurons)

\* ------------------------------------------------------------------- deaff
deaff_pattern(s, pattern_number, deaffed_neurons) ==
    IF ~PyValidIndex(s.patterns, pattern_number - 1)
    THEN [s EXCEPT !.error = "IndexError"]
    ELSE [s EXCEPT !.I_e_zeroed = @ \cup deaffed_neurons,
                   !.sdL = Append(@, deaffed_neurons),
                   !.trace = Append(@, Event("SetStatus_I_e",
                                             s.kernel_time, 0))]

DeaffChoices(s, pattern_number) ==
    IF PyValidIndex(s.patterns, pattern_number - 1)
    THEN Samples(PyIndex(s.patterns, pattern_number - 1), PopD)
    ELSE {{}}

\* the pattern number deaff_last_pattern hands to deaff_pattern
LastPatternForDeaff(s) == s.pattern_count - 1

deaff_last_pattern(s, deaffed_neurons) ==
    deaff_pattern(s, LastPatternForDeaff(s), deaffed_neurons)

\* ------------------------------------------------------------ initial state
\* After Sinha2016(): the lists are empty, nothing is set up.  The driver
\* variables and the two scripts stand at their first statement.
InitObject ==
    /\ \E st \in StabilisationTimes, ri \in RecordingIntervals :
          /\ stabilisation_time = st * 1000
          /\ sp_recording_interval =
                 InitRecordingInterval(st * 1000, ri * 1000)
    /\ pattern_count = 0
    /\ patterns = <<>>
    /\ recalls = <<>>
    /\ sdP = <<>> /\ sdB = <<>> /\ sdR = <<>> /\ sdL = <<>>
    /\ stims = <<>>
    /\ I_e_zeroed = {}
    /\ kernel_time = 0
    /\ weightEE = [c \in Connections |-> 0]
    /\ weightIE_epoch = 0
    /\ ca_file = <<>>
    /\ syn_elms_file = <<>>
    /\ mean_synaptic_weights_file = <<>>
    /\ dump_files = {}
    /\ phase = "constructed"
    /\ op = "__init__"
    /\ args = [simtime |-> 0, step |-> FALSE, pattern_number |-> 0]
    /\ trace = <<>>
    /\ error = "none"
    /\ n_calls = 0
    /\ n_runs = 0
    /\ only_runs = FALSE
    /\ main_pc = "setup_simulation"
    /\ main_i = 0
    /\ vogels_pc = 1
    /\ vogels_names = {}
    /\ vogels_error = "none"
    /\ vogels_created = 0

Init == InitObject /\ numpats = numpats_default

\* The __main__ block is checked for every number of patterns up to
\* MaxNumpats (the source's literal is numpats_default).
InitMain == InitObject /\ numpats \in 0..MaxNumpats

\* ------------------------------------------------------------ calls
Args(simtime, step, pattern_number) ==
    [simtime |-> simtime, step |-> step, pattern_number |-> pattern_number]

Call(name, a, s) ==
    /\ Commit(s)
    /\ op' = name
    /\ args' = a
    /\ phase' = "ready"
    /\ n_calls' = IF name = "setup_simulation" THEN 0 ELSE n_calls + 1
    /\ n_runs' = IF name = "setup_simulation" THEN 0
                 ELSE IF name = "run_simulation" /\ ~a.step THEN n_runs + 1
                 ELSE n_runs
    /\ only_runs' = IF name = "setup_simulation" THEN TRUE
                    ELSE only_runs /\ name = "run_simulation" /\ ~a.step
    /\ UNCHANGED objVars

\* a method called on the object directly, outside the two scripts
Direct(name, a, s) == Call(name, a, s) /\ UNCHANGED <<mainVars, vogelsVars>>

\* the object is set up, no exception has ended the program, and the driver
\* has calls left
Ready == phase = "ready" /\ error = "none" /\ n_calls < MaxCalls

\* the Simulate calls a run_simulation call makes
RunSteps(simtime, step) == IF step THEN StepCount(simtime) ELSE 1

\* the simulated time (ms) a run_simulation call covers
RunAdvance(simtime, step) ==
    IF step THEN StepCount(simtime) * StepMs ELSE simtime

\* ------------------------------------------- the class driven call by call
\* A driver constructs the object, calls setup_simulation first and once (as
\* __main__ does) and then calls the public methods in any order, MaxCalls
\* times at most.  An exception is not caught: it ends the program.
SetupSimulation ==
    /\ phase = "constructed"
    /\ \E strong \in Samples(Connections, SparseCount(Cardinality(Connections))) :
          Direct("setup_simulation", Args(0, FALSE, 0),
                 setup_simulation(State, strong))

RunSimulation ==
    /\ Ready
    /\ \E sec \in SimTimes, step \in BOOLEAN :
          /\ RunSteps(sec * 1000, step) <= MaxSteps
          /\ Direct("run_simulation", Args(sec * 1000, step, 0),
                    run_simulation(State, sec * 1000, step, NoAnnotation))

Stabilise ==
    /\ Ready
    /\ \E step \in BOOLEAN :
          /\ step => StabiliseSteps(stabilisation_time, sp_recording_interval)
                          * RunSteps(sp_recording_interval, step) <= MaxSteps
          /\ Direct("stabilise", Args(sp_recording_interval, step, 0),
                    stabilise(State, step, NoAnnotation))

StorePattern ==
    /\ Ready
    /\ \E pattern_neurons \in Samples(NeuronsE, PopP) :
          Direct("store_pattern", Args(0, FALSE, 0),
                 store_pattern(State, pattern_neurons))

SetupPatternForRecall ==
    /\ Ready
    /\ \E pattern_number \in 0..(pattern_count + 1) :
          \E recall_neurons \in RecallChoices(State, pattern_number) :
              Direct("setup_pattern_for_recall",
                     Args(0, FALSE, pattern_number),
                     setup_pattern_for_recall(State, pattern_number,
                                              recall_neurons))

RecallPattern ==
    /\ Ready
    /\ \E pattern_number \in 0..(pattern_count + 1), sec \in SimTimes,
          step \in BOOLEAN :
          /\ RunSteps(sec * 1000, step) <= MaxSteps
          /\ \E recall_neurons \in RecallChoices(State, pattern_number) :
                Direct("recall_pattern",
                       Args(sec * 1000, step, pattern_number),
                       recall_pattern(State, sec * 1000, step, pattern_number,
                                      recall_neurons))

RecallLastPattern ==
    /\ Ready
    /\ \E sec \in SimTimes, step \in BOOLEAN :
          /\ RunSteps(sec * 1000, step) <= MaxSteps
          /\ \E recall_neurons \in
                    RecallChoices(State, LastPatternForRecall(State)) :
                Direct("recall_last_pattern",
                       Args(sec * 1000, step, LastPatternForRecall(State)),
                       recall_last_pattern(State, sec * 1000, step,
                                           recall_neurons))

DeaffPattern ==
    /\ Ready
    /\ \E pattern_number \in 0..(pattern_count + 1) :
          \E deaffed_neurons \in DeaffChoices(State, pattern_number) :
              Direct("deaff_pattern", Args(0, FALSE, pattern_number),
                     deaff_pattern(State, pattern_number, deaffed_neurons))

DeaffLastPattern ==
    /\ Ready
    /\ \E deaffed_neurons \in DeaffChoices(State, LastPatternForDeaff(State)) :
          Direct("deaff_last_pattern",
                 Args(0, FALSE, LastPatternForDeaff(State)),
                 deaff_last_pattern(State, deaffed_neurons))

DumpCaConcentration ==
    /\ Ready
    /\ Direct("dump_ca_concentration", Args(0, FALSE, 0),
              dump_ca_concentration(State))

DumpSynapticElements ==
    /\ Ready
    /\ Direct("dump_synaptic_elements", Args(0, FALSE, 0),
              dump_synaptic_elements(State))

DumpMeanSynapticWeights ==
    /\ Ready
    /\ Direct("dump_mean_synaptic_weights", Args(0, FALSE, 0),
              dump_mean_synaptic_weights(State))

DumpAllIEWeights ==
    /\ Ready
    /\ Direct("dump_all_IE_weights", Args(0, FALSE, 0),
              dump_all_IE_weights(State, Annotation("manual", 0)))

DumpAllEEWeights ==
    /\ Ready
    /\ Direct("dump_all_EE_weights", Args(0, FALSE, 0),
              dump_all_EE_weights(State, Annotation("manual", 0)))

Next ==
    \/ SetupSimulation
    \/ RunSimulation
    \/ Stabilise
    \/ StorePattern
    \/ SetupPatternForRecall
    \/ RecallPattern
    \/ RecallLastPattern
    \/ DeaffPattern
    \/ DeaffLastPattern
    \/ DumpCaConcentration
    \/ DumpSynapticElements
    \/ DumpMeanSynapticWeights
    \/ DumpAllIEWeights
    \/ DumpAllEEWeights

Spec == Init /\ [][Next]_vars


\* ------------------------------------------------ Sinha2016.py as a script
\* step = False in __main__
main_step == FALSE

\* the loop running once more: range(0, numpats + 1)
MainLoopContinues_inclusive(i, n) == i <= n

\* for i in range(0, simulation.numpats): the loop body runs while i < numpats
MainLoopContinues(i, n) == i < n

MainCall(name, a, s) == Call(name, a, s) /\ UNCHANGED vogelsVars

MainSetupSimulation ==
    /\ main_pc = "setup_simulation"
    /\ \E strong \in Samples(Connections, SparseCount(Cardinality(Connections))) :
          MainCall("setup_simulation", Args(0, main_step, 0),
                   setup_simulation(State, strong))
    /\ main_pc' = "initial_stabilisation"
    /\ main_i' = main_i

MainInitialStabilise ==
    /\ main_pc = "initial_stabilisation"
    /\ MainCall("stabilise", Args(sp_recording_interval, main_step, 0),
                stabilise(State, main_step,
                          Annotation("initial_stabilisation", 0)))
    /\ main_pc' = "loop"
    /\ main_i' = 0

MainStorePattern ==
    /\ main_pc = "loop"
    /\ MainLoopContinues(main_i, numpats)
    /\ \E pattern_neurons \in Samples(NeuronsE, PopP) :
          MainCall("store_pattern", Args(0, main_step, 0),
                   store_pattern(State, pattern_neurons))
    /\ main_pc' = "pattern_stabilisation"
    /\ main_i' = main_i

MainPatternStabilise ==
    /\ main_pc = "pattern_stabilisation"
    /\ MainCall("stabilise", Args(sp_recording_interval, main_step, 0),
                stabilise(State, main_step,
                          Annotation("pattern_stabilisation", main_i)))
    /\ main_pc' = "loop"
    /\ main_i' = main_i + 1

MainExit ==
    /\ main_pc = "loop"
    /\ ~MainLoopContinues(main_i, numpats)
    /\ main_pc' = "done"
    /\ UNCHANGED <<objVars, simVars, callVars, main_i, vogelsVars>>

\* ------------------------------------------------ vogels2005.py as a script
\* The module-level statements in order: the line each starts at, the names
\* it evaluates, the names it binds and the populations it creates.
Stmt(line, reads, binds, creates) ==
    [line |-> line, reads |-> reads, binds |-> binds, creates |-> creates]

VogelsProgram ==
    << Stmt(24, {}, {"print_function"}, 0),
       Stmt(25, {}, {"sys"}, 0),
       Stmt(26, {"sys"}, {}, 0),
       Stmt(27, {}, {"nest"}, 0),
       Stmt(28, {}, {"numpy"}, 0),
       Stmt(29, {}, {"math"}, 0),
       Stmt(30, {}, {"random"}, 0),
       Stmt(34, {"self"}, {}, 0),
       Stmt(43, {"nest"}, {}, 0),
       Stmt(44, {"nest", "self"}, {}, 0),
       Stmt(45, {"nest"}, {}, 0),
       Stmt(46, {"nest", "self"}, {}, 0),
       Stmt(48, {"nest", "self"}, {}, 1),
       Stmt(49, {"nest", "self"}, {}, 1),
       Stmt(50, {"nest", "self"}, {}, 1),
       Stmt(53, {"nest", "self"}, {}, 1) >>

\* One statement of the script: a name that is not bound in the module's
\* namespace raises NameError, which ends the script.
VogelsStep ==
    /\ vogels_error = "none"
    /\ vogels_pc <= Len(VogelsProgram)
    /\ LET st == VogelsProgram[vogels_pc]
       IN  IF st.reads \subseteq vogels_names
           THEN /\ vogels_names' = vogels_names \cup st.binds
                /\ vogels_created' = vogels_created + st.creates
                /\ vogels_pc' = vogels_pc + 1
                /\ vogels_error' = vogels_error
           ELSE /\ vogels_error' = "NameError"
                /\ UNCHANGED <<vogels_names, vogels_created, vogels_pc>>
    /\ UNCHANGED <<objVars, simVars, callVars, mainVars>>

\* The two scripts of the repository, each run from its first statement.
NextMain ==
    \/ MainSetupSimulation
    \/ MainInitialStabilise
    \/ MainStorePattern
    \/ MainPatternStabilise
    \/ MainExit
    \/ VogelsStep

SpecMain == InitMain /\ [][NextMain]_vars

\* =================================================================== claims
\* the positions of the calls named c in the trace of the last operation
CallsOf(c) == {i \in 1..Len(trace) : trace[i].call = c}

IsData(q, from) == \A i \in from..Len(q) : q[i].kind = "data"

\* C1: after setup_simulation followed by n >= 0 run_simulation calls with
\* step=False, the calcium file holds n+1 records, the synaptic-elements file
\* its header and n+1 records, the mean-weights file n+1 records; and a
\* run_simulation(step=False) call first simulates and then writes the
\* calcium, synaptic-elements and mean-weights records, in this order, at the
\* kernel time the Simulate call ended at.
C1_RecordsPerRun ==
    /\ only_runs =>
          /\ Len(ca_file) = n_runs + 1
          /\ IsData(ca_file, 1)
          /\ Len(syn_elms_file) = n_runs + 2
          /\ syn_elms_file[1] = HeaderLine
          /\ IsData(syn_elms_file, 2)
          /\ Len(mean_synaptic_weights_file) = n_runs + 1
          /\ IsData(mean_synaptic_weights_file, 1)
    /\ (op = "run_simulation" /\ ~args.step) =>
          /\ Len(trace) = 6
          /\ trace[1] = Event("Simulate", kernel_time - args.simtime,
                              args.simtime)
          /\ trace[2] = Event("dump_ca_concentration", kernel_time, 0)
          /\ trace[3] = Event("dump_synaptic_elements", kernel_time, 0)
          /\ trace[4] = Event("dump_mean_synaptic_weights", kernel_time, 0)
          /\ Last(ca_file) = DataRecord(kernel_time)
          /\ Last(syn_elms_file) = DataRecord(kernel_time)
          /\ Last(mean_synaptic_weights_file) = DataRecord(kernel_time)

C1_Witness ==
    /\ only_runs
    /\ n_runs = 3
    /\ op = "run_simulation"
    /\ Len(ca_file) = 4

\* C2: the kernel time changes only in an operation that calls nest.Simulate
\* (run_simulation, and stabilise and the recall methods through it) or in
\* setup_simulation's reset; store_pattern, setup_pattern_for_recall,
\* deaff_pattern and the dump methods leave it unchanged, and the dump
\* methods also leave the connection weights, patterns, recalls and
\* pattern_count unchanged.
DumpOps == {"dump_ca_concentration", "dump_synaptic_elements",
            "dump_mean_synaptic_weights", "dump_all_IE_weights",
            "dump_all_EE_weights"}

TimelessOps == DumpOps \cup {"store_pattern", "setup_pattern_for_recall",
                             "deaff_pattern"}

C2_KernelTimeFrame ==
    [][ /\ op' \in TimelessOps => kernel_time' = kernel_time
        /\ op' \in DumpOps =>
              /\ weightEE' = weightEE
              /\ weightIE_epoch' = weightIE_epoch
              /\ patterns' = patterns
              /\ recalls' = recalls
              /\ pattern_count' = pattern_count
        /\ kernel_time' # kernel_time =>
              \E i \in 1..Len(trace') :
                  trace'[i].call \in {"Simulate", "ResetKernel"} ]_vars

C2_Witness ==
    /\ op = "dump_all_EE_weights"
    /\ kernel_time > 0
    /\ pattern_count > 0
    /\ \E c \in Connections : weightEE[c] = PatternWeight

C4_DeaffLastPattern ==
    (op = "deaff_last_pattern" /\ error = "none") =>
        /\ pattern_count >= 1
        /\ Last(sdL) \subseteq patterns[pattern_count]
        /\ Last(sdL) \subseteq I_e_zeroed

\* C5: the generator setup_pattern_for_recall creates at kernel time t has
\* origin t, start 0 and stop recall_time, so it is active exactly on the
\* window from t to t + recall_time; a recall whose run_simulation covers more
\* than recall_time ends with the stimulus off, after a remainder of the run
\* without stimulus.
\* the engine's device window: active on (origin + start, origin + stop]
StimActive(g, t) == (g.origin + g.start < t) /\ (t <= g.origin + g.stop)

C5_ProbeTimes(t) ==
    {t, t + 1, t + recall_time - 1, t + recall_time, t + recall_time + 1}

C5_StimulusWindow ==
    /\ op = "setup_pattern_for_recall" =>
          /\ Last(stims) = [origin |-> kernel_time, start |-> 0,
                            stop |-> recall_time]
          /\ \A tau \in C5_ProbeTimes(kernel_time) :
                StimActive(Last(stims), tau)
                    <=> (kernel_time < tau /\ tau <= kernel_time + recall_time)
    /\ (op \in {"recall_pattern", "recall_last_pattern"} /\ error = "none") =>
          LET g == Last(stims)
              advance == RunAdvance(args.simtime, args.step)
              t == kernel_time - advance
          IN  /\ g = [origin |-> t, start |-> 0, stop |-> recall_time]
              /\ trace[1] = Event("Create_poisson_generator", t, 0)
              /\ \A tau \in C5_ProbeTimes(t) :
                    StimActive(g, tau) <=> (t < tau /\ tau <= t + recall_time)
              /\ advance > recall_time =>
                    /\ ~StimActive(g, kernel_time)
                    /\ kernel_time - (g.origin + g.stop)
                           = advance - recall_time

C5_Witness ==
    /\ op = "recall_last_pattern"
    /\ error = "none"
    /\ ~args.step
    /\ args.simtime > recall_time
    /\ Last(stims).origin > 0

\* C6: stabilisation_time is a multiple of sp_recording_interval, and one
\* stabilise(step=False) makes stabilisation_time / sp_recording_interval
\* run_simulation calls of sp_recording_interval each: that many Simulate
\* calls of that length, the kernel time advanced by stabilisation_time, and
\* one calcium, synaptic-elements and mean-weights record per interval.
C6_StabiliseRuns ==
    /\ stabilisation_time % sp_recording_interval = 0
    /\ (op = "stabilise" /\ ~args.step) =>
          LET n == stabilisation_time \div sp_recording_interval
          IN  /\ Cardinality(CallsOf("Simulate")) = n
              /\ \A i \in CallsOf("Simulate") :
                    trace[i].arg = sp_recording_interval
              /\ kernel_time = trace[1].t + stabilisation_time
              /\ Cardinality(CallsOf("dump_ca_concentration")) = n
              /\ Cardinality(CallsOf("dump_synaptic_elements")) = n
              /\ Cardinality(CallsOf("dump_mean_synaptic_weights")) = n
              /\ \A i \in CallsOf("dump_ca_concentration") :
                    (trace[i].t - trace[1].t) % sp_recording_interval = 0

C6_Witness ==
    /\ op = "stabilise"
    /\ ~args.step
    /\ sp_recording_interval * 2 = stabilisation_time
    /\ kernel_time = 2 * stabilisation_time

\* C7: the main script sets up, stabilises once, then stores each of the
\* numpats patterns and stabilises fully after it: the j-th store_pattern
\* happens at simulated time j * stabilisation_time, every store_pattern is
\* followed at once by a stabilisation, no exception ends the script, its loop
\* counter only runs up to numpats, and it ends with pattern_count = numpats
\* after (1 + numpats) * stabilisation_time.
C7_MainScript ==
    /\ error = "none"
    /\ main_i <= numpats
    /\ op = "store_pattern" =>
          /\ pattern_count = main_i + 1
          /\ kernel_time = pattern_count * stabilisation_time
          /\ main_pc = "pattern_stabilisation"
    /\ main_pc = "pattern_stabilisation" =>
          /\ op = "store_pattern"
          /\ main_i < numpats
    /\ main_pc = "initial_stabilisation" =>
          /\ pattern_count = 0
          /\ kernel_time = 0
    /\ main_pc = "loop" =>
          /\ op = "stabilise"
          /\ pattern_count = main_i
          /\ kernel_time = (1 + main_i) * stabilisation_time
    /\ main_pc = "done" =>
          /\ pattern_count = numpats
          /\ Len(patterns) = numpats
          /\ kernel_time = (1 + numpats) * stabilisation_time

C7_Witness ==
    /\ main_pc = "done"
    /\ numpats = 2
    /\ pattern_count = 2
    /\ stabilisation_time = 12000000

\* C8: vogels2005.py runs to its nest.Create calls without raising an error:
\* no exception ends it, and when it has run through, the two populations and
\* the two Poisson generators have been created.
C8_VogelsReachesCreate ==
    /\ vogels_error = "none"
    /\ vogels_pc > Len(VogelsProgram) => vogels_created = 4
=============================================================================
